---- MODULE Spec2Model ----
(***************************************************************************)
(* Model of src/server.js: an Express application with one registered      *)
(* route, GET /get-stream/:id, which looks a channel up in a JSON          *)
(* directory, fetches the channel's HLS playlist and rewrites every        *)
(* reference line of it into an absolute URL.                              *)
(*                                                                         *)
(* Text is modelled as a sequence of one-character strings, so that        *)
(* split, trim, substring, lastIndexOf and URL resolution are computed     *)
(* character by character as the code computes them.                       *)
(***************************************************************************)
EXTENDS Integers, Sequences, FiniteSets, TLC

(***************************************************************************)
(* Bounds of the model.                                                    *)
(***************************************************************************)
MaxLines == 2
MaxChannels == 2

(***************************************************************************)
(* JavaScript string primitives used by the handler.                       *)
(***************************************************************************)
\* String.prototype.trim strips white space and line terminators.
WhiteSpace == {" ", "\t", "\n", "\r", "\f"}

RECURSIVE TrimStart(_)
TrimStart(s) ==
    IF s # <<>> /\ s[1] \in WhiteSpace THEN TrimStart(Tail(s)) ELSE s

RECURSIVE TrimEnd(_)
TrimEnd(s) ==
    IF s # <<>> /\ s[Len(s)] \in WhiteSpace
    THEN TrimEnd(SubSeq(s, 1, Len(s) - 1))
    ELSE s

Trim(s) == TrimEnd(TrimStart(s))

StartsWith(s, p) == Len(s) >= Len(p) /\ SubSeq(s, 1, Len(p)) = p

\* String.prototype.lastIndexOf for a one-character needle: 0-based, -1 when
\* the character does not occur.
LastIndexOf(s, c) ==
    IF \E i \in 1..Len(s) : s[i] = c
    THEN (CHOOSE i \in 1..Len(s) :
            s[i] = c /\ \A j \in (i + 1)..Len(s) : s[j] # c) - 1
    ELSE -1

\* String.prototype.substring(from, to) with 0-based, end-exclusive indices.
Substring(s, from, to) == SubSeq(s, from + 1, to)

\* Position of the first element of s that lies in the set cs, Len(s)+1 if none.
RECURSIVE FirstFrom(_, _, _)
FirstFrom(s, cs, i) ==
    IF i <= Len(s) /\ s[i] \notin cs THEN FirstFrom(s, cs, i + 1) ELSE i

FirstIn(s, cs) == FirstFrom(s, cs, 1)

\* String.prototype.split for a one-character separator.
RECURSIVE Split(_, _)
Split(s, sep) ==
    LET k == FirstIn(s, {sep})
    IN  IF k > Len(s)
        THEN <<s>>
        ELSE <<SubSeq(s, 1, k - 1)>> \o Split(SubSeq(s, k + 1, Len(s)), sep)

\* Array.prototype.join for a one-character separator.
RECURSIVE Join(_, _)
Join(ls, sep) ==
    IF ls = <<>> THEN <<>>
    ELSE IF Len(ls) = 1 THEN ls[1]
    ELSE ls[1] \o <<sep>> \o Join(Tail(ls), sep)

(***************************************************************************)
(* new URL(input, base).toString(): the WHATWG URL parser and serializer,  *)
(* for the special schemes http and https.  Not modelled (and absent from  *)
(* every input the model draws): credentials ('@'), IPv4 and IPv6 host     *)
(* literals, percent-escapes in the input, non-ASCII characters, and the   *)
(* path of a non-special scheme, which is kept as written.                 *)
(***************************************************************************)
Lower == <<"a","b","c","d","e","f","g","h","i","j","k","l","m",
           "n","o","p","q","r","s","t","u","v","w","x","y","z">>
Upper == <<"A","B","C","D","E","F","G","H","I","J","K","L","M",
           "N","O","P","Q","R","S","T","U","V","W","X","Y","Z">>
Digits == <<"0","1","2","3","4","5","6","7","8","9">>

Range(f) == {f[i] : i \in DOMAIN f}

Alphas == Range(Lower) \cup Range(Upper)
UpperAlphas == Range(Upper)
DigitChars == Range(Digits)
SchemeChars == Alphas \cup DigitChars \cup {"+", "-", "."}

IsAlpha(c) == c \in Alphas
IsDigit(c) == c \in DigitChars

ToLower(c) ==
    IF c \in UpperAlphas THEN Lower[CHOOSE i \in 1..26 : Upper[i] = c] ELSE c

LowerCase(s) == [i \in 1..Len(s) |-> ToLower(s[i])]

\* Leading and trailing C0 controls and spaces are stripped, then every tab
\* and newline is removed.
C0OrSpace == {" ", "\t", "\n", "\r", "\f"}
TabOrNewline == {"\t", "\n", "\r"}

RECURSIVE StripLeading(_)
StripLeading(s) ==
    IF s # <<>> /\ s[1] \in C0OrSpace THEN StripLeading(Tail(s)) ELSE s

RECURSIVE StripTrailing(_)
StripTrailing(s) ==
    IF s # <<>> /\ s[Len(s)] \in C0OrSpace
    THEN StripTrailing(SubSeq(s, 1, Len(s) - 1))
    ELSE s

StripInput(s) ==
    SelectSeq(StripTrailing(StripLeading(s)), LAMBDA c : c \notin TabOrNewline)

\* Percent-encode sets, restricted to printable ASCII; the grave accent is
\* left out of the fragment and path sets.
FragmentEncodeSet == {" ", "\"", "<", ">"}
QueryEncodeSet == {" ", "\"", "#", "<", ">", "'"}
PathEncodeSet == {" ", "\"", "#", "<", ">", "?", "{", "}"}

Hex(c) ==
    CASE c = " "  -> <<"%","2","0">>
      [] c = "\"" -> <<"%","2","2">>
      [] c = "#"  -> <<"%","2","3">>
      [] c = "'"  -> <<"%","2","7">>
      [] c = "<"  -> <<"%","3","C">>
      [] c = ">"  -> <<"%","3","E">>
      [] c = "?"  -> <<"%","3","F">>
      [] c = "{"  -> <<"%","7","B">>
      [] c = "}"  -> <<"%","7","D">>

RECURSIVE PercentEncode(_, _)
PercentEncode(s, set) ==
    IF s = <<>> THEN <<>>
    ELSE (IF s[1] \in set THEN Hex(s[1]) ELSE <<s[1]>>)
         \o PercentEncode(Tail(s), set)

\* The value a failed parse yields; new URL throws a TypeError on it.
Failure ==
    [ok |-> FALSE, scheme |-> <<>>, special |-> FALSE, host |-> <<>>,
     port |-> -1, path |-> <<>>, hasQuery |-> FALSE, query |-> <<>>,
     hasFragment |-> FALSE, fragment |-> <<>>]

SpecialSchemes == {<<"h","t","t","p">>, <<"h","t","t","p","s">>}

DefaultPort(scheme) == IF scheme = <<"h","t","t","p">> THEN 80 ELSE 443

Slashes == {"/", "\\"}

\* Scheme start state and scheme state: the length of the scheme that ends
\* at a ':', or 0 when the input has no scheme.
RECURSIVE SchemeEnd(_, _)
SchemeEnd(s, i) ==
    IF i <= Len(s) /\ s[i] \in SchemeChars THEN SchemeEnd(s, i + 1) ELSE i

SchemeLen(s) ==
    IF s = <<>> \/ ~IsAlpha(s[1]) THEN 0
    ELSE LET k == SchemeEnd(s, 2)
         IN  IF k <= Len(s) /\ s[k] = ":" THEN k - 1 ELSE 0

\* Special authority ignore slashes state.
RECURSIVE SkipSlashes(_)
SkipSlashes(s) ==
    IF s # <<>> /\ s[1] \in Slashes THEN SkipSlashes(Tail(s)) ELSE s

\* Shorten a url's path (scheme is not file).
Shorten(path) ==
    IF path = <<>> THEN path ELSE SubSeq(path, 1, Len(path) - 1)

\* Path state: consumes segments up to '?', '#' or the end of the input.
RECURSIVE PathLoop(_, _)
PathLoop(path, s) ==
    LET k == FirstIn(s, Slashes \cup {"?", "#"})
        raw == SubSeq(s, 1, k - 1)
        isSlash == k <= Len(s) /\ s[k] \in Slashes
        newPath ==
            IF raw = <<".", ".">>
            THEN (IF isSlash THEN Shorten(path) ELSE Append(Shorten(path), <<>>))
            ELSE IF raw = <<".">>
            THEN (IF isSlash THEN path ELSE Append(path, <<>>))
            ELSE Append(path, PercentEncode(raw, PathEncodeSet))
    IN  IF isSlash
        THEN PathLoop(newPath, SubSeq(s, k + 1, Len(s)))
        ELSE [path |-> newPath, rest |-> SubSeq(s, k, Len(s))]

\* Query state and fragment state, s being empty or starting at '?' or '#'.
ParseTail(url, s) ==
    LET h == FirstIn(s, {"#"})
        beforeHash == SubSeq(s, 1, h - 1)
        withQuery ==
            IF beforeHash # <<>>
            THEN [url EXCEPT !.hasQuery = TRUE,
                             !.query = PercentEncode(Tail(beforeHash), QueryEncodeSet)]
            ELSE url
    IN  IF h <= Len(s)
        THEN [withQuery EXCEPT
                !.hasFragment = TRUE,
                !.fragment = PercentEncode(SubSeq(s, h + 1, Len(s)), FragmentEncodeSet)]
        ELSE withQuery

ParsePath(url, s) ==
    LET r == PathLoop(url.path, s)
    IN  ParseTail([url EXCEPT !.path = r.path], r.rest)

\* A port is a run of digits of value at most 65535.
RECURSIVE PortValue(_, _)
PortValue(s, acc) ==
    IF s = <<>> THEN acc
    ELSE IF acc > 65535 THEN acc
    ELSE PortValue(Tail(s), acc * 10 + ((CHOOSE i \in 1..10 : Digits[i] = s[1]) - 1))

ForbiddenHost ==
    {" ", "\t", "\n", "\r", "\f", "\"", "#", "%", "/", ":", "<", ">", "?", "@",
     "[", "\\", "]", "^", "|"}

\* Authority state, host state and port state, s being the input after the
\* slashes that follow the scheme.
ParseAuthority(scheme, s) ==
    LET k == FirstIn(s, Slashes \cup {"?", "#"})
        auth == SubSeq(s, 1, k - 1)
        c == FirstIn(auth, {":"})
        host == LowerCase(SubSeq(auth, 1, c - 1))
        portStr == SubSeq(auth, c + 1, Len(auth))
        port == PortValue(portStr, 0)
        rest == SubSeq(s, k, Len(s))
        url == [Failure EXCEPT
                  !.ok = TRUE, !.scheme = scheme, !.special = TRUE,
                  !.host = host,
                  !.port = IF portStr = <<>> \/ port = DefaultPort(scheme)
                           THEN -1 ELSE port]
    IN  IF host = <<>> THEN Failure
        ELSE IF \E i \in 1..Len(host) : host[i] \in ForbiddenHost THEN Failure
        ELSE IF \E i \in 1..Len(portStr) : ~IsDigit(portStr[i]) THEN Failure
        ELSE IF port > 65535 THEN Failure
        ELSE ParsePath(url, IF rest # <<>> /\ rest[1] \in Slashes
                            THEN Tail(rest) ELSE rest)

\* Relative state and relative slash state; base is a parsed special URL.
ParseRelative(s, base) ==
    LET noFrag == [base EXCEPT !.hasFragment = FALSE, !.fragment = <<>>]
        noQuery == [noFrag EXCEPT !.hasQuery = FALSE, !.query = <<>>]
    IN  IF s = <<>> THEN noFrag
        ELSE IF s[1] \in Slashes
        THEN (IF Len(s) >= 2 /\ s[2] \in Slashes
              THEN ParseAuthority(base.scheme, SkipSlashes(SubSeq(s, 3, Len(s))))
              ELSE ParsePath([noQuery EXCEPT !.path = <<>>], Tail(s)))
        ELSE IF s[1] = "?" THEN ParseTail(noQuery, s)
        ELSE IF s[1] = "#" THEN ParseTail(noFrag, s)
        ELSE ParsePath([noQuery EXCEPT !.path = Shorten(base.path)], s)

\* The basic URL parser; base is a parsed URL or Failure when there is none.
BasicParse(input, base) ==
    LET s == StripInput(input)
        n == SchemeLen(s)
        scheme == LowerCase(SubSeq(s, 1, n))
        rest == SubSeq(s, n + 2, Len(s))
    IN  IF n > 0
        THEN (IF scheme \in SpecialSchemes
              THEN (IF base.ok /\ base.scheme = scheme
                    THEN (IF Len(rest) >= 2 /\ rest[1] = "/" /\ rest[2] = "/"
                          THEN ParseAuthority(scheme, SkipSlashes(rest))
                          ELSE ParseRelative(rest, base))
                    ELSE ParseAuthority(scheme, SkipSlashes(rest)))
              ELSE [Failure EXCEPT !.ok = TRUE, !.scheme = scheme,
                                   !.path = <<rest>>])
        ELSE IF ~base.ok THEN Failure
        ELSE IF ~base.special THEN Failure
        ELSE ParseRelative(s, base)

RECURSIVE NatToString(_)
NatToString(n) ==
    IF n < 10 THEN <<Digits[n + 1]>>
    ELSE NatToString(n \div 10) \o <<Digits[(n % 10) + 1]>>

RECURSIVE SerializePath(_)
SerializePath(path) ==
    IF path = <<>> THEN <<>>
    ELSE <<"/">> \o path[1] \o SerializePath(Tail(path))

\* The URL serializer (URL.prototype.toString / href).
Serialize(url) ==
    url.scheme \o <<":">>
    \o (IF url.special
        THEN <<"/", "/">> \o url.host
             \o (IF url.port >= 0 THEN <<":">> \o NatToString(url.port) ELSE <<>>)
             \o SerializePath(url.path)
        ELSE url.path[1])
    \o (IF url.hasQuery THEN <<"?">> \o url.query ELSE <<>>)
    \o (IF url.hasFragment THEN <<"#">> \o url.fragment ELSE <<>>)

\* new URL(input, base): base is a string and is parsed without a base.
NewURL(input, base) == BasicParse(input, BasicParse(base, Failure))

(***************************************************************************)
(* The inputs of the handler: the requested id, what the directory         *)
(* answers and what the upstream origin answers.                           *)
(***************************************************************************)
DATA_URL == "https://raw.githubusercontent.com/devmujahidul/Auto_Fetch/refs/heads/main/output.json"

RequestIds == {"ch1", "ch2", "CH1"}

\* Channel records {id, url} a directory may list.  ch1 occurs twice, so the
\* order of the records matters; the last url has no '/' after its authority.
UrlLive == <<"h","t","t","p","s",":","/","/","o","/","p","/","l","i","v","e",".","m","3","u","8">>
UrlToken == <<"h","t","t","p","s",":","/","/","o","/","l",".","m","3","u","8","?","t","=","a","/","b">>
UrlBare == <<"h","t","t","p","s",":","/","/","o">>

ChannelRecords ==
    { [id |-> "ch1", url |-> UrlLive],
      [id |-> "ch1", url |-> UrlBare],
      [id |-> "ch2", url |-> UrlToken] }

Directories == UNION {[1..n -> ChannelRecords] : n \in 0..MaxChannels}

\* Lines an upstream playlist may consist of.
LinePool ==
    { <<>>,
      <<" ","#","E","X","T","-","X","-","E","N","D","L","I","S","T","\r">>,
      <<" "," ">>,
      <<"c","h","u","n","k","0",".","t","s">>,
      <<"s","u","b","/","p","l","a","y","l","i","s","t",".","m","3","u","8">>,
      <<"k","e","y",".","b","i","n","\r">>,
      <<"/","a","b","s","/",".",".","/","a"," ","b",".","k","e","y">>,
      <<"/","/">>,
      <<"h","t","t","p","s",":","/","/","c","d","n","/","v",".","m","3","u","8","?","s","=","x",".","t","s">> }

Playlists == UNION {[1..n -> LinePool] : n \in 0..MaxLines}

\* What axios.get settles with: it resolves on a 2xx status, rejects with
\* error.response set on any other status, and rejects without
\* error.response on a transport error.
FailureStatuses == {403, 404, 500}

NoOutcome ==
    [kind |-> "none", status |-> 0, shaped |-> FALSE, channels |-> <<>>,
     data |-> <<>>]

DirectoryOutcomes ==
    {[NoOutcome EXCEPT !.kind = "ok", !.status = 200, !.shaped = TRUE,
                       !.channels = d] : d \in Directories}
    \cup {[NoOutcome EXCEPT !.kind = "ok", !.status = 200]}
    \cup {[NoOutcome EXCEPT !.kind = "status", !.status = st] :
            st \in FailureStatuses}
    \cup {[NoOutcome EXCEPT !.kind = "network"]}

\* shaped says that the body is text; axios hands a body that parses as JSON
\* over as an object, which has no split method.
StreamOutcomes ==
    {[NoOutcome EXCEPT !.kind = "ok", !.status = 200, !.shaped = TRUE,
                       !.data = Join(ls, "\n")] : ls \in Playlists}
    \cup {[NoOutcome EXCEPT !.kind = "ok", !.status = 200]}
    \cup {[NoOutcome EXCEPT !.kind = "status", !.status = st] :
            st \in FailureStatuses}
    \cup {[NoOutcome EXCEPT !.kind = "network"]}

\* The error a rejected axios.get throws; a TypeError has no response.
ErrorOf(outcome) ==
    [hasResponse |-> outcome.kind = "status", status |-> outcome.status]

TypeError == [hasResponse |-> FALSE, status |-> 0]

(***************************************************************************)
(* The steps of the handler of GET /get-stream/:id.                        *)
(***************************************************************************)
\* A find that falls back to the first record when no id matches.
FindOrFirst(channels, requestedId) ==
    IF \E i \in 1..Len(channels) : channels[i].id = requestedId
    THEN CHOOSE i \in 1..Len(channels) :
            /\ channels[i].id = requestedId
            /\ \A j \in 1..(i - 1) : channels[j].id # requestedId
    ELSE IF channels = <<>> THEN 0 ELSE 1

\* channels.find(item => item.id === requestedId): the index of the first
\* record with that id, 0 for undefined.
Find(channels, requestedId) ==
    IF \E i \in 1..Len(channels) : channels[i].id = requestedId
    THEN CHOOSE i \in 1..Len(channels) :
            /\ channels[i].id = requestedId
            /\ \A j \in 1..(i - 1) : channels[j].id # requestedId
    ELSE 0

\* A base that stops before the last '/'.
BaseUrlBeforeSlash(targetUrl) ==
    Substring(targetUrl, 0, LastIndexOf(targetUrl, "/"))

\* targetUrl.substring(0, targetUrl.lastIndexOf('/') + 1)
BaseUrl(targetUrl) == Substring(targetUrl, 0, LastIndexOf(targetUrl, "/") + 1)

\* A callback that returns directive and blank lines trimmed.
RewriteLineTrimmed(line, baseUrl) ==
    IF Trim(line) = <<>> \/ StartsWith(Trim(line), <<"#">>) THEN Trim(line)
    ELSE LET u == NewURL(line, baseUrl)
         IN  IF u.ok THEN Serialize(u) ELSE line

\* The callback of lines.map.
RewriteLine(line, baseUrl) ==
    IF Trim(line) = <<>> \/ StartsWith(Trim(line), <<"#">>) THEN line
    ELSE LET u == NewURL(line, baseUrl)
         IN  IF u.ok THEN Serialize(u) ELSE line

\* A rewrite that drops the lines that are empty.
RewriteNonEmpty(m3u8Content, baseUrl) ==
    LET lines == SelectSeq(Split(m3u8Content, "\n"), LAMBDA l : l # <<>>)
        newLines == [i \in 1..Len(lines) |-> RewriteLine(lines[i], baseUrl)]
    IN  Join(newLines, "\n")

\* split, map and join.
Rewrite(m3u8Content, baseUrl) ==
    LET lines == Split(m3u8Content, "\n")
        newLines == [i \in 1..Len(lines) |-> RewriteLine(lines[i], baseUrl)]
    IN  Join(newLines, "\n")

PlainResponse(status, message) ==
    [status |-> status, message |-> message, playlist |-> <<>>,
     contentType |-> "text/html", allowOrigin |-> "*"]

PlaylistResponse(finalM3u8) ==
    [status |-> 200, message |-> "", playlist |-> finalM3u8,
     contentType |-> "application/vnd.apple.mpegurl", allowOrigin |-> "*"]

\* A catch block that answers 500 whatever the error.
CatchGeneric(error) == PlainResponse(500, "Error fetching stream")

\* The catch block.
Catch(error) ==
    IF error.hasResponse /\ error.status = 403
    THEN PlainResponse(403, "Access Denied: The token in the JSON file is likely IP-locked to the GitHub server and cannot be used on this network.")
    ELSE PlainResponse(500, "Error fetching stream")

(***************************************************************************)
(* State of one request.  The module keeps no state between requests (its  *)
(* only module-level bindings are the constants app, PORT and DATA_URL),   *)
(* so one request stands for each of them.                                 *)
(***************************************************************************)
VARIABLES
    pc,             \* "idle", "awaitDirectory", "awaitStream" or "done"
    reqPath,        \* the path of the request
    hasUrlParam,    \* whether the request has a url query parameter
    requestedId,    \* req.params.id
    fetches,        \* the outbound fetches made so far, in order
    jsonResponse,   \* what the directory fetch settled with
    targetUrl,
    baseUrl,
    streamResponse, \* what the playlist fetch settled with
    responses       \* the responses sent to the caller, in order

vars ==
    <<pc, reqPath, hasUrlParam, requestedId, fetches, jsonResponse, targetUrl,
      baseUrl, streamResponse, responses>>

Init ==
    /\ pc = "idle"
    /\ reqPath = ""
    /\ hasUrlParam = FALSE
    /\ requestedId = ""
    /\ fetches = <<>>
    /\ jsonResponse = NoOutcome
    /\ targetUrl = <<>>
    /\ baseUrl = <<>>
    /\ streamResponse = NoOutcome
    /\ responses = <<>>

\* A request matches the route and the handler runs up to the first await.
GetStream(id) ==
    /\ pc = "idle"
    /\ reqPath' = "/get-stream/:id"
    /\ requestedId' = id
    /\ fetches' = Append(fetches, [target |-> "directory", url |-> <<>>])
    /\ pc' = "awaitDirectory"
    /\ UNCHANGED <<hasUrlParam, jsonResponse, targetUrl, baseUrl,
                   streamResponse, responses>>

\* The directory fetch resolves: find the channel, answer 404 or start the
\* playlist fetch; a body without a channels array throws in the try block.
DirectoryResolved(outcome) ==
    /\ pc = "awaitDirectory"
    /\ outcome.kind = "ok"
    /\ jsonResponse' = outcome
    /\ IF ~outcome.shaped
       THEN /\ responses' = Append(responses, Catch(TypeError))
            /\ pc' = "done"
            /\ UNCHANGED <<fetches, targetUrl, baseUrl>>
       ELSE LET channel == Find(outcome.channels, requestedId)
            IN  IF channel = 0
                THEN /\ responses' =
                          Append(responses, PlainResponse(404, "Channel ID not found"))
                     /\ pc' = "done"
                     /\ UNCHANGED <<fetches, targetUrl, baseUrl>>
                ELSE /\ targetUrl' = outcome.channels[channel].url
                     /\ baseUrl' = BaseUrl(outcome.channels[channel].url)
                     /\ fetches' =
                          Append(fetches,
                                 [target |-> "stream",
                                  url |-> outcome.channels[channel].url])
                     /\ pc' = "awaitStream"
                     /\ UNCHANGED responses
    /\ UNCHANGED <<reqPath, hasUrlParam, requestedId, streamResponse>>

\* A handler that fetches the directory a second time after a failure.
DirectoryRejectedRetry(outcome) ==
    /\ pc = "awaitDirectory"
    /\ outcome.kind \in {"status", "network"}
    /\ jsonResponse' = outcome
    /\ IF Len(fetches) < 2
       THEN /\ fetches' = Append(fetches, [target |-> "directory", url |-> <<>>])
            /\ UNCHANGED <<responses, pc>>
       ELSE /\ responses' = Append(responses, Catch(ErrorOf(outcome)))
            /\ pc' = "done"
            /\ UNCHANGED fetches
    /\ UNCHANGED <<reqPath, hasUrlParam, requestedId, targetUrl, baseUrl,
                   streamResponse>>

\* The directory fetch rejects: the catch block answers.
DirectoryRejected(outcome) ==
    /\ pc = "awaitDirectory"
    /\ outcome.kind \in {"status", "network"}
    /\ jsonResponse' = outcome
    /\ responses' = Append(responses, Catch(ErrorOf(outcome)))
    /\ pc' = "done"
    /\ UNCHANGED <<reqPath, hasUrlParam, requestedId, fetches, targetUrl,
                   baseUrl, streamResponse>>

\* The playlist fetch resolves: rewrite and send.
StreamResolved(outcome) ==
    /\ pc = "awaitStream"
    /\ outcome.kind = "ok"
    /\ streamResponse' = outcome
    /\ responses' =
          Append(responses,
                 IF outcome.shaped
                 THEN PlaylistResponse(Rewrite(outcome.data, baseUrl))
                 ELSE Catch(TypeError))
    /\ pc' = "done"
    /\ UNCHANGED <<reqPath, hasUrlParam, requestedId, fetches, jsonResponse,
                   targetUrl, baseUrl>>

\* The playlist fetch rejects: the catch block answers.
StreamRejected(outcome) ==
    /\ pc = "awaitStream"
    /\ outcome.kind \in {"status", "network"}
    /\ streamResponse' = outcome
    /\ responses' = Append(responses, Catch(ErrorOf(outcome)))
    /\ pc' = "done"
    /\ UNCHANGED <<reqPath, hasUrlParam, requestedId, fetches, jsonResponse,
                   targetUrl, baseUrl>>

\* A GET for a path no route is registered for: Express answers 404 and no
\* handler of the application runs.
OtherPaths == {"/proxy-m3u8", "/proxy-segment"}

UnmatchedRoute(path, withUrl) ==
    /\ pc = "idle"
    /\ reqPath' = path
    /\ hasUrlParam' = withUrl
    /\ responses' = Append(responses, PlainResponse(404, "Cannot GET"))
    /\ pc' = "done"
    /\ UNCHANGED <<requestedId, fetches, jsonResponse, targetUrl, baseUrl,
                   streamResponse>>

Next ==
    \/ \E id \in RequestIds : GetStream(id)
    \/ \E o \in DirectoryOutcomes : DirectoryResolved(o)
    \/ \E o \in DirectoryOutcomes : DirectoryRejected(o)
    \/ \E o \in StreamOutcomes : StreamResolved(o)
    \/ \E o \in StreamOutcomes : StreamRejected(o)
    \/ \E path \in OtherPaths, withUrl \in BOOLEAN : UnmatchedRoute(path, withUrl)

Spec == Init /\ [][Next]_vars

(***************************************************************************)
(* Properties.                                                             *)
(***************************************************************************)
\* The response of a finished request.
Sent == responses[Len(responses)]

Served == pc = "done" /\ reqPath = "/get-stream/:id"

ServedPlaylist == Served /\ Sent.status = 200

InLines == Split(streamResponse.data, "\n")
OutLines == Split(Sent.playlist, "\n")

IsReference(line) == Trim(line) # <<>> /\ Trim(line)[1] # "#"

\* s contains p as a substring.
Includes(s, p) ==
    \E i \in 1..(Len(s) - Len(p) + 1) : SubSeq(s, i, i + Len(p) - 1) = p

DotM3u8 == <<".","m","3","u","8">>
DotTs == <<".","t","s">>

\* The base the properties resolve against: the playlist URL up to and
\* including its last '/'.
DirectoryOf(url) ==
    SubSeq(url, 1, CHOOSE i \in 0..Len(url) :
                      /\ i = 0 \/ url[i] = "/"
                      /\ \A j \in (i + 1)..Len(url) : url[j] # "/")

Resolved(line) == NewURL(line, DirectoryOf(targetUrl))

\* The relay's own scheme and host and the two proxy prefixes that C1 and C2
\* speak of; the handler computes neither.
RelayBase == <<"h","t","t","p","s",":","/","/","r","e","l","a","y">>
ProxyM3u8 == RelayBase \o <<"/","p","r","o","x","y","-","m","3","u","8","?","u","r","l","=">>
ProxySegment == RelayBase \o <<"/","p","r","o","x","y","-","s","e","g","m","e","n","t","?","u","r","l","=">>

\* encodeURIComponent on ASCII text.
Unreserved ==
    Alphas \cup DigitChars
    \cup {"-", "_", ".", "!", "~", "*", "'", "(", ")"}

ComponentHex(c) ==
    CASE c = ":" -> <<"%","3","A">>
      [] c = "/" -> <<"%","2","F">>
      [] c = "?" -> <<"%","3","F">>
      [] c = "=" -> <<"%","3","D">>
      [] c = "#" -> <<"%","2","3">>
      [] c = "%" -> <<"%","2","5">>
      [] c = "&" -> <<"%","2","6">>
      [] c = "+" -> <<"%","2","B">>
      [] c = " " -> <<"%","2","0">>

RECURSIVE EncodeURIComponent(_)
EncodeURIComponent(s) ==
    IF s = <<>> THEN <<>>
    ELSE (IF s[1] \in Unreserved THEN <<s[1]>> ELSE ComponentHex(s[1]))
         \o EncodeURIComponent(Tail(s))

\* C1: in every playlist returned by GET /get-stream/:id, a reference line
\* whose trimmed text contains ".m3u8" is output as
\* <relayBase>/proxy-m3u8?url=<percent-encoded absolute URL>.
C1_NestedPlaylistProxied ==
    ServedPlaylist =>
        LET inL == InLines
            outL == OutLines
        IN  \A i \in 1..Len(inL) :
                LET r == Resolved(inL[i])
                IN  (/\ IsReference(inL[i])
                     /\ Includes(Trim(inL[i]), DotM3u8)
                     /\ r.ok)
                    => /\ i <= Len(outL)
                       /\ outL[i] = ProxyM3u8 \o EncodeURIComponent(Serialize(r))

\* C2: in every playlist returned by GET /get-stream/:id, a reference line
\* whose trimmed text contains ".ts" and not ".m3u8" is output as
\* <relayBase>/proxy-segment?url=<percent-encoded absolute URL>.
C2_SegmentProxied ==
    ServedPlaylist =>
        LET inL == InLines
            outL == OutLines
        IN  \A i \in 1..Len(inL) :
                LET r == Resolved(inL[i])
                IN  (/\ IsReference(inL[i])
                     /\ Includes(Trim(inL[i]), DotTs)
                     /\ ~Includes(Trim(inL[i]), DotM3u8)
                     /\ r.ok)
                    => /\ i <= Len(outL)
                       /\ outL[i] = ProxySegment \o EncodeURIComponent(Serialize(r))

\* A reference line that contains neither ".m3u8" nor ".ts".
IsOtherReference(line) ==
    /\ IsReference(line)
    /\ ~Includes(Trim(line), DotM3u8)
    /\ ~Includes(Trim(line), DotTs)

\* C3: a reference line that contains neither ".m3u8" nor ".ts" and that
\* resolves is output as exactly the absolute URL it resolves to against the
\* playlist URL up to and including its last '/', without a proxy prefix.
C3_OtherReferenceAbsolute ==
    ServedPlaylist =>
        LET inL == InLines
            outL == OutLines
        IN  \A i \in 1..Len(inL) :
                LET r == Resolved(inL[i])
                IN  (IsOtherReference(inL[i]) /\ r.ok)
                    => /\ i <= Len(outL)
                       /\ outL[i] = Serialize(r)
                       /\ ~StartsWith(outL[i], RelayBase)

\* A playlist was served in which such a line, relative to the playlist's
\* directory, was rewritten into a different, absolute text.
C3_Witness ==
    /\ ServedPlaylist
    /\ LET inL == InLines
           outL == OutLines
       IN  \E i \in 1..Len(inL) :
              /\ IsOtherReference(inL[i])
              /\ Resolved(inL[i]).ok
              /\ i <= Len(outL)
              /\ outL[i] # inL[i]
              /\ StartsWith(outL[i], DirectoryOf(targetUrl))

\* C4: every blank line and every line whose first non-blank character is
\* '#' is output at the same position, character for character.
C4_DirectivesUntouched ==
    ServedPlaylist =>
        LET inL == InLines
            outL == OutLines
        IN  \A i \in 1..Len(inL) :
                ~IsReference(inL[i]) => i <= Len(outL) /\ outL[i] = inL[i]

\* A playlist was served that has a directive line with white space around
\* it, after a reference line that was rewritten.
C4_Witness ==
    /\ ServedPlaylist
    /\ LET inL == InLines
           outL == OutLines
       IN  /\ Len(inL) = 2
           /\ IsReference(inL[1])
           /\ outL[1] # inL[1]
           /\ ~IsReference(inL[2])
           /\ Trim(inL[2]) # inL[2]
           /\ Trim(inL[2]) # <<>>

\* C5: the output has exactly as many newline-separated lines as the input;
\* a line whose resolution fails is passed through unchanged.
C5_LineCountPreserved ==
    ServedPlaylist =>
        LET inL == InLines
            outL == OutLines
        IN  /\ Len(outL) = Len(inL)
            /\ \A i \in 1..Len(inL) :
                  (IsReference(inL[i]) /\ ~NewURL(inL[i], baseUrl).ok)
                  => outL[i] = inL[i]

\* A playlist was served that ends in a newline and has a line that does
\* not resolve although the base is a valid URL.
C5_Witness ==
    /\ ServedPlaylist
    /\ LET inL == InLines
       IN  /\ Len(inL) = 2
           /\ inL[2] = <<>>
           /\ IsReference(inL[1])
           /\ NewURL(<<"k">>, baseUrl).ok
           /\ ~NewURL(inL[1], baseUrl).ok

\* C6: when the directory fetch succeeds and no record has the requested
\* id, the response is 404.
C6_UnknownIdIs404 ==
    (/\ Served
     /\ jsonResponse.kind = "ok"
     /\ jsonResponse.shaped
     /\ \A i \in 1..Len(jsonResponse.channels) :
           jsonResponse.channels[i].id # requestedId)
    => Sent.status = 404

\* A request was answered 404 although the directory lists channels.
C6_Witness ==
    /\ Served
    /\ jsonResponse.kind = "ok"
    /\ jsonResponse.shaped
    /\ Len(jsonResponse.channels) = MaxChannels
    /\ \A i \in 1..Len(jsonResponse.channels) :
          jsonResponse.channels[i].id # requestedId
    /\ Sent.status = 404

StreamFailed == streamResponse.kind \in {"status", "network"}

\* C7: a playlist fetch rejected with 403 is answered 403; any other failed
\* playlist fetch is answered 500.
C7_UpstreamForbiddenIs403 ==
    (Served /\ StreamFailed) =>
        IF streamResponse.kind = "status" /\ streamResponse.status = 403
        THEN Sent.status = 403
        ELSE Sent.status = 500

\* The upstream origin rejected the playlist fetch with 403.
C7_Witness ==
    /\ Served
    /\ streamResponse.kind = "status"
    /\ streamResponse.status = 403
    /\ Sent.status = 403

DirectoryFailed ==
    \/ jsonResponse.kind \in {"status", "network"}
    \/ jsonResponse.kind = "ok" /\ ~jsonResponse.shaped

\* C8: when the directory fetch fails (transport error, any status that is
\* not 2xx, or a body of another shape) the response is 500.
C8_DirectoryFailureIs500 ==
    (Served /\ DirectoryFailed) => Sent.status = 500

\* C9: a GET of /proxy-m3u8 or /proxy-segment without a url parameter is
\* answered 400, and no outbound fetch is made for it.
C9_MissingUrlIs400 ==
    (pc = "done" /\ reqPath \in OtherPaths /\ ~hasUrlParam)
    => Sent.status = 400 /\ fetches = <<>>

IsDirectoryFetch(f) == f.target = "directory"

\* C10: the directory is fetched exactly once and first; the playlist is
\* fetched at most once, and only after the directory fetch succeeded and a
\* record matched; nothing is fetched after a failed fetch; the request ends
\* with exactly one response, of status 200, 403, 404 or 500.
C10_FetchOrder ==
    reqPath = "/get-stream/:id" =>
        /\ Len(fetches) \in {1, 2}
        /\ IsDirectoryFetch(fetches[1])
        /\ Len(fetches) = 2 =>
              /\ ~IsDirectoryFetch(fetches[2])
              /\ jsonResponse.kind = "ok"
              /\ jsonResponse.shaped
              /\ \E i \in 1..Len(jsonResponse.channels) :
                    /\ jsonResponse.channels[i].id = requestedId
                    /\ \A j \in 1..(i - 1) :
                          jsonResponse.channels[j].id # requestedId
                    /\ fetches[2].url = jsonResponse.channels[i].url
        /\ DirectoryFailed => Len(fetches) = 1 /\ pc = "done"
        /\ StreamFailed => pc = "done"
        /\ pc = "done" =>
              /\ Len(responses) = 1
              /\ Sent.status \in {200, 403, 404, 500}
        /\ pc # "done" => responses = <<>>

\* A request ended after both fetches, the second of which failed.
C10_Witness ==
    /\ Served
    /\ Len(fetches) = 2
    /\ StreamFailed
    /\ Len(responses) = 1

====
